---- MODULE Spec2Model ----
(***************************************************************************)
(* State-machine model of flame9.py (BUNIT ASCII fire animation).          *)
(*                                                                         *)
(* Spec      : the whole program: startup, the frame loop (heat injection, *)
(*             per-cell diffusion and drawing, refresh, key poll), the     *)
(*             KeyboardInterrupt handlers and the two shutdown paths.      *)
(* SpecDecay : the diffusion pass alone, applied repeatedly to a buffer    *)
(*             that holds one hot grid cell (injection disabled).          *)
(* SpecPass  : the diffusion pass alone, applied to arbitrary grid         *)
(*             contents.                                                   *)
(***************************************************************************)
EXTENDS Integers, Sequences, FiniteSets, TLC

VARIABLES
    width,        \* screen.getmaxyx()[1]
    height,       \* screen.getmaxyx()[0]
    b,            \* heat buffer, indexed from 0 as the Python list is
    pc,           \* position of the single thread of control
    inj,          \* iterations done of the injection loop of this frame
    i,            \* index of the diffusion loop
    frame_count,  \* frames counted so far
    refreshes,    \* number of screen.refresh() calls: frames presented
    attempts,     \* per grid cell, screen.addstr calls in the current frame
    lastDraw,     \* the latest screen.addstr call and its outcome
    touched,      \* buffer indices accessed by the latest step
    term,         \* "curses" while the display is held, "normal" once released
    cursor,       \* "hidden" / "visible"
    endwins,      \* number of curses.endwin() calls
    stdout,       \* what was printed, in order
    exc,          \* exception propagating out of main, "none" if none
    stop,         \* the event that ended the frame loop or the startup
    exitStatus,   \* -1 while running, then the process exit status
    prev          \* SpecDecay/SpecPass: the buffer before the latest pass

vars == <<width, height, b, pc, inj, i, frame_count, refreshes, attempts,
          lastDraw, touched, term, cursor, endwins, stdout, exc, stop,
          exitStatus, prev>>

(***************************************************************************)
(* Bounds of the model.                                                    *)
(***************************************************************************)
MaxWidth == 9
MaxHeight == 3
MaxFrames == 1
PassMaxWidth == 3
PassMaxHeight == 3

(***************************************************************************)
(* Program constants.                                                      *)
(***************************************************************************)
Seed == 65
InjectDivisor == 9

Size(w, h) == w * h

BufLenShort(w, h) == Size(w, h) + w
BufLen(w, h) == Size(w, h) + w + 1

ZeroBuffer(w, h) == [j \in 0..(BufLen(w, h) - 1) |-> 0]

(***************************************************************************)
(* random.random() returns a double k / 2^53, 0 <= k < 2^53.  The index    *)
(* int(random.random() * width + width * (height - 1)) is computed in      *)
(* IEEE-754 double arithmetic, round-to-nearest-even.  Every column of the *)
(* bottom row can be produced.  For the largest random value, 1 - 2^-53,   *)
(* the product rounds to width - P2Up(width) * 2^-53, and the sum with the *)
(* row base is width*height - P2Up(width) * 2^-53 before rounding; the     *)
(* doubles just below width*height are SpacingBelow(width*height) * 2^-53  *)
(* apart, so the sum rounds up to width*height exactly when the distance   *)
(* is at most half that spacing (a tie goes to the even mantissa, which is *)
(* width*height).                                                          *)
(***************************************************************************)
RECURSIVE P2UpFrom(_, _)
P2UpFrom(p, n) == IF p >= n THEN p ELSE P2UpFrom(2 * p, n)
P2Up(n) == P2UpFrom(1, n)

SpacingBelow(n) == IF P2Up(n) = n THEN n ELSE P2Up(n)

RoundsUpToSize(w, h) == 2 * P2Up(w) <= SpacingBelow(Size(w, h))

\* A draw r in 0..w-1 stands for a random value whose index lands in column
\* r of the bottom row; r = w stands for the largest value 1 - 2^-53.
RandomDraws(w) == 0..w

InjectIndex(r, w, h) ==
    IF r < w THEN w * (h - 1) + r
    ELSE IF RoundsUpToSize(w, h) THEN Size(w, h) ELSE Size(w, h) - 1

InjectCount(w) == w \div InjectDivisor

(***************************************************************************)
(* int(x / 4): true division, then truncation toward zero.                 *)
(***************************************************************************)
IntQuot(s, d) == IF s >= 0 THEN s \div d ELSE -((-s) \div d)

NeighboursLeft(j, w) == <<j, j + 1, j + w, j + w - 1>>
NeighboursOf(j, w) == <<j, j + 1, j + w, j + w + 1>>

Reads(j, w) == {NeighboursOf(j, w)[n] : n \in 1..4}

InRange(buf, idxs) == idxs \subseteq DOMAIN buf

CoolValue(buf, j, w) ==
    IntQuot(buf[j] + buf[j + 1] + buf[j + w] + buf[j + w + 1], 4) - 1
GrowValue(buf, j, w) ==
    IntQuot(buf[j] + buf[j + 1] + buf[j + w] + buf[j + w + 1], 3)
DiffuseValue(buf, j, w) ==
    IntQuot(buf[NeighboursOf(j, w)[1]] + buf[NeighboursOf(j, w)[2]]
            + buf[NeighboursOf(j, w)[3]] + buf[NeighboursOf(j, w)[4]], 4)

DiffuseAt(buf, j, w) == [buf EXCEPT ![j] = DiffuseValue(buf, j, w)]

\* The whole pass of lines 41-42, cells j .. size-1 in increasing order.
RECURSIVE DiffusePassDown(_, _, _, _)
DiffusePassDown(buf, j, w, size) ==
    IF j >= size THEN buf
    ELSE DiffuseAt(DiffusePassDown(buf, j + 1, w, size), j, w)
RECURSIVE DiffusePass(_, _, _, _)
DiffusePass(buf, j, w, size) ==
    IF j >= size THEN buf
    ELSE DiffusePass(DiffuseAt(buf, j, w), j + 1, w, size)

Color(v) == IF v > 15 THEN 4 ELSE IF v > 9 THEN 3 ELSE IF v > 4 THEN 2 ELSE 1

Glyph(v) == IF v > 9 THEN 9 ELSE v

ShouldDrawAll(j, w, h) ==
    j < Size(w, h) /\ (j \div w) < h /\ (j % w) < w
ShouldDraw(j, w, h) ==
    j < Size(w, h) - 1 /\ (j \div w) < h /\ (j % w) < w

NoDraw == [row |-> -1, col |-> -1, glyph |-> -1, color |-> 0, ok |-> FALSE]

DrawOf(buf, j, w, ok) ==
    [row |-> j \div w, col |-> j % w, glyph |-> Glyph(buf[j]),
     color |-> Color(buf[j]), ok |-> ok]

NoAttempts(w, h) == [c \in 0..(Size(w, h) - 1) |-> 0]

\* Which handler a KeyboardInterrupt reaches, by position.
InTryAlways(p) == p \in {"alloc", "config", "inject", "diffuse", "getch"}
InTry(p) == p \in {"inject", "diffuse", "getch"}

InStartup(p) == p \in {"alloc", "config"}

Summary(n, t) == [text |-> "BUNIT Animation stopped after N frames", n |-> n, term |-> t]

Stopped(t) == [text |-> "Animation stopped.", n |-> 0, term |-> t]

(***************************************************************************)
(* Init: curses.wrapper has acquired the display and calls main.           *)
(***************************************************************************)
Init ==
    /\ width \in 1..MaxWidth
    /\ height \in 1..MaxHeight
    /\ b = <<>>
    /\ pc = "alloc"
    /\ inj = 0
    /\ i = 0
    /\ frame_count = 0
    /\ refreshes = 0
    /\ attempts = NoAttempts(width, height)
    /\ lastDraw = NoDraw
    /\ touched = {}
    /\ term = "curses"
    /\ cursor = "visible"
    /\ endwins = 0
    /\ stdout = <<>>
    /\ exc = "none"
    /\ stop = "none"
    /\ exitStatus = -1
    /\ prev = <<>>

\* lines 18-22
Allocate ==
    /\ pc = "alloc"
    /\ b' = ZeroBuffer(width, height)
    /\ pc' = "config"
    /\ UNCHANGED <<width, height, inj, i, frame_count, refreshes, attempts,
                   lastDraw, touched, term, cursor, endwins, stdout, exc,
                   stop, exitStatus, prev>>

\* lines 24-32, and the entry into the first frame
Configure ==
    /\ pc = "config"
    /\ cursor' = "hidden"
    /\ frame_count' = 0
    /\ inj' = 0
    /\ pc' = "inject"
    /\ UNCHANGED <<width, height, b, i, refreshes, attempts, lastDraw,
                   touched, term, endwins, stdout, exc, stop, exitStatus,
                   prev>>

\* An exception other than KeyboardInterrupt raised inside the try block:
\* the finally clause runs and the exception propagates.
Raise(e) ==
    /\ exc' = e
    /\ stop' = e
    /\ pc' = "finally"

\* lines 37-38, one iteration
InjectHeat ==
    /\ pc = "inject"
    /\ inj < InjectCount(width)
    /\ \E r \in RandomDraws(width) :
         LET idx == InjectIndex(r, width, height) IN
           /\ touched' = {idx}
           /\ IF InRange(b, {idx})
                THEN /\ b' = [b EXCEPT ![idx] = Seed]
                     /\ inj' = inj + 1
                     /\ UNCHANGED <<pc, exc, stop>>
                ELSE /\ Raise("IndexError")
                     /\ UNCHANGED <<b, inj>>
    /\ UNCHANGED <<width, height, i, frame_count, refreshes, attempts,
                   lastDraw, term, cursor, endwins, stdout, exitStatus, prev>>

\* line 37 exhausted, line 41 entered
BeginDiffusion ==
    /\ pc = "inject"
    /\ inj = InjectCount(width)
    /\ i' = 0
    /\ attempts' = NoAttempts(width, height)
    /\ pc' = "diffuse"
    /\ UNCHANGED <<width, height, b, inj, frame_count, refreshes, lastDraw,
                   touched, term, cursor, endwins, stdout, exc, stop,
                   exitStatus, prev>>

\* lines 41-58, one iteration
DiffuseCell ==
    /\ pc = "diffuse"
    /\ i < Size(width, height)
    /\ touched' = Reads(i, width)
    /\ IF InRange(b, Reads(i, width))
         THEN /\ b' = DiffuseAt(b, i, width)
              /\ i' = i + 1
              /\ IF ShouldDraw(i, width, height)
                   THEN /\ attempts' = [attempts EXCEPT ![i] = @ + 1]
                        /\ \E ok \in BOOLEAN :
                             lastDraw' = DrawOf(b', i, width, ok)
                   ELSE UNCHANGED <<attempts, lastDraw>>
              /\ UNCHANGED <<pc, exc, stop>>
         ELSE /\ Raise("IndexError")
              /\ UNCHANGED <<b, i, attempts, lastDraw>>
    /\ UNCHANGED <<width, height, inj, frame_count, refreshes, term, cursor,
                   endwins, stdout, exitStatus, prev>>

\* lines 60-61
Present ==
    /\ pc = "diffuse"
    /\ i = Size(width, height)
    /\ refreshes' = refreshes + 1
    /\ pc' = "getch"
    /\ UNCHANGED <<width, height, b, inj, i, frame_count, attempts, lastDraw,
                   touched, term, cursor, endwins, stdout, exc, stop,
                   exitStatus, prev>>

\* lines 63-64: a key arrived within the timeout
KeyPressedCounted ==
    /\ pc = "getch"
    /\ frame_count' = frame_count + 1
    /\ stop' = "key"
    /\ pc' = "finally"
    /\ UNCHANGED <<width, height, b, inj, i, refreshes, attempts, lastDraw,
                   touched, term, cursor, endwins, stdout, exc, exitStatus,
                   prev>>
KeyPressed ==
    /\ pc = "getch"
    /\ stop' = "key"
    /\ pc' = "finally"
    /\ UNCHANGED <<width, height, b, inj, i, frame_count, refreshes, attempts,
                   lastDraw, touched, term, cursor, endwins, stdout, exc,
                   exitStatus, prev>>

\* lines 63, 66: getch returned -1; the next frame starts
NoKey ==
    /\ pc = "getch"
    /\ frame_count < MaxFrames
    /\ frame_count' = frame_count + 1
    /\ inj' = 0
    /\ pc' = "inject"
    /\ UNCHANGED <<width, height, b, i, refreshes, attempts, lastDraw,
                   touched, term, cursor, endwins, stdout, exc, stop,
                   exitStatus, prev>>

\* A KeyboardInterrupt arrives during startup or during the frame loop.
\* Raised inside the try block it is caught at lines 68-69 and the finally
\* clause follows; raised before the try block it leaves main.
Interrupt ==
    /\ InStartup(pc) \/ pc \in {"inject", "diffuse", "getch"}
    /\ stop' = IF InStartup(pc) THEN "interrupt_startup" ELSE "interrupt_loop"
    /\ IF InTry(pc)
         THEN /\ pc' = "finally"
              /\ UNCHANGED exc
         ELSE /\ pc' = "cleanup"
              /\ exc' = "KeyboardInterrupt"
    /\ UNCHANGED <<width, height, b, inj, i, frame_count, refreshes, attempts,
                   lastDraw, touched, term, cursor, endwins, stdout,
                   exitStatus, prev>>

\* line 71
FinallyEndwin ==
    /\ pc = "finally"
    /\ term' = "normal"
    /\ cursor' = "visible"
    /\ endwins' = endwins + 1
    /\ pc' = "print"
    /\ UNCHANGED <<width, height, b, inj, i, frame_count, refreshes, attempts,
                   lastDraw, touched, stdout, exc, stop, exitStatus, prev>>

\* line 72, then main returns or the pending exception leaves main
FinallyPrint ==
    /\ pc = "print"
    /\ stdout' = Append(stdout, Summary(frame_count, term))
    /\ pc' = "cleanup"
    /\ UNCHANGED <<width, height, b, inj, i, frame_count, refreshes, attempts,
                   lastDraw, touched, term, cursor, endwins, exc, stop,
                   exitStatus, prev>>

\* line 76: the finally clause of curses.wrapper
WrapperSkipsEndwin ==
    /\ pc = "cleanup"
    /\ pc' = "unwound"
    /\ UNCHANGED <<width, height, b, inj, i, frame_count, refreshes, attempts,
                   lastDraw, touched, term, cursor, endwins, stdout, exc,
                   stop, exitStatus, prev>>
WrapperCleanup ==
    /\ pc = "cleanup"
    /\ term' = "normal"
    /\ cursor' = "visible"
    /\ endwins' = endwins + 1
    /\ pc' = "unwound"
    /\ UNCHANGED <<width, height, b, inj, i, frame_count, refreshes, attempts,
                   lastDraw, touched, stdout, exc, stop, exitStatus, prev>>

\* lines 75-79: the script's handler, or the normal end of the script
Finish ==
    /\ pc = "unwound"
    /\ IF exc = "KeyboardInterrupt"
         THEN /\ stdout' = Append(stdout, Stopped(term))
              /\ exitStatus' = 0
         ELSE IF exc = "none"
         THEN /\ exitStatus' = 0
              /\ UNCHANGED stdout
         ELSE /\ exitStatus' = 1
              /\ UNCHANGED stdout
    /\ pc' = "exit"
    /\ UNCHANGED <<width, height, b, inj, i, frame_count, refreshes, attempts,
                   lastDraw, touched, term, cursor, endwins, exc, stop, prev>>

Next ==
    \/ Allocate
    \/ Configure
    \/ InjectHeat
    \/ BeginDiffusion
    \/ DiffuseCell
    \/ Present
    \/ KeyPressed
    \/ NoKey
    \/ Interrupt
    \/ FinallyEndwin
    \/ FinallyPrint
    \/ WrapperCleanup
    \/ Finish

Spec == Init /\ [][Next]_vars

(***************************************************************************)
(* The diffusion pass on its own (heat injection disabled).                *)
(***************************************************************************)
Idle(w, h) ==
    /\ inj = 0
    /\ i = 0
    /\ frame_count = 0
    /\ refreshes = 0
    /\ attempts = NoAttempts(w, h)
    /\ lastDraw = NoDraw
    /\ touched = {}
    /\ term = "curses"
    /\ cursor = "hidden"
    /\ endwins = 0
    /\ stdout = <<>>
    /\ exc = "none"
    /\ stop = "none"
    /\ exitStatus = -1
    /\ prev = <<>>

SeedValues == 1..Seed

\* lines 18-22: the buffer as allocated, all cold
InitDecay ==
    /\ width \in 1..MaxWidth
    /\ height \in 1..MaxHeight
    /\ b = ZeroBuffer(width, height)
    /\ pc = "seed"
    /\ Idle(width, height)

\* One grid cell is made hot.
PlaceSeed ==
    /\ pc = "seed"
    /\ \E k \in 0..(Size(width, height) - 1), v \in SeedValues :
         b' = [b EXCEPT ![k] = v]
    /\ pc' = "pass"
    /\ UNCHANGED <<width, height, inj, i, frame_count, refreshes, attempts,
                   lastDraw, touched, term, cursor, endwins, stdout, exc,
                   stop, exitStatus, prev>>

PassHeat == {0, Seed}

InitPass ==
    /\ width \in 1..PassMaxWidth
    /\ height \in 1..PassMaxHeight
    /\ \E g \in [0..(Size(width, height) - 1) -> PassHeat] :
         b = [j \in 0..(BufLen(width, height) - 1) |->
                IF j < Size(width, height) THEN g[j] ELSE 0]
    /\ pc = "pass"
    /\ Idle(width, height)

\* lines 41-42, the whole loop
PassStep ==
    /\ pc = "pass"
    /\ prev' = b
    /\ b' = DiffusePass(b, 0, width, Size(width, height))
    /\ UNCHANGED <<width, height, pc, inj, i, frame_count, refreshes,
                   attempts, lastDraw, touched, term, cursor, endwins, stdout,
                   exc, stop, exitStatus>>

DecayNext == PlaceSeed \/ PassStep

SpecDecay == InitDecay /\ [][DecayNext]_vars

SpecPass == InitPass /\ [][PassStep]_vars

(***************************************************************************)
(* Properties.                                                             *)
(***************************************************************************)
SummaryText == Summary(0, "normal").text

SummaryAfterRestore ==
    \E n \in 1..Len(stdout) :
       stdout[n].text = SummaryText /\ stdout[n].term = "normal"

Ended == pc = "exit" /\ stop \in {"key", "interrupt_loop", "interrupt_startup"}

\* C1 (as stated): every run ended by a key press or by an interrupt, during
\* startup or during the frame loop, exits with status 0 and has printed the
\* summary message after the terminal was restored.
C1_SummaryOnEveryStop ==
    Ended => exitStatus = 0 /\ SummaryAfterRestore

\* C1 (amended): every such run exits with status 0; a run ended by a key
\* press or by an interrupt inside the frame loop has printed exactly the
\* summary message, with the frame count, after endwin; a run interrupted in
\* main before the try block has printed only "Animation stopped.", after the
\* wrapper restored the terminal, and no summary.
C1_ExitMessages ==
    Ended =>
      /\ exitStatus = 0
      /\ stop \in {"key", "interrupt_loop"} =>
           stdout = <<Summary(frame_count, "normal")>>
      /\ stop = "interrupt_startup" => stdout = <<Stopped("normal")>>

C1_Witness ==
    /\ pc = "exit"
    /\ stop = "interrupt_startup"
    /\ exitStatus = 0
    /\ stdout = <<Stopped("normal")>>

\* C2 (as stated): in every complete run the display is released exactly
\* once, counting main's endwin and the wrapper's, and the terminal ends in
\* normal mode with the cursor visible.
C2_ReleasedExactlyOnce ==
    Ended => endwins = 1 /\ term = "normal" /\ cursor = "visible"

\* C2 (amended): the display is held while main runs and every complete run
\* leaves the terminal in normal mode with the cursor visible; endwin is
\* called twice (main's finally clause, then the wrapper) when the loop is
\* stopped by a key or by an interrupt inside it, and once (the wrapper) when
\* the interrupt arrives in main before the try block.
C2_ReleasedOnEveryPath ==
    /\ (InStartup(pc) \/ InTry(pc)) => endwins = 0 /\ term = "curses"
    /\ Ended =>
         /\ term = "normal"
         /\ cursor = "visible"
         /\ endwins = IF stop = "interrupt_startup" THEN 1 ELSE 2

C2_Witness ==
    pc = "exit" /\ stop = "key" /\ endwins = 2 /\ term = "normal"

\* C3 (as stated): when a key press stops the loop, the number in the summary
\* equals the number of frames rendered and presented (refresh performed).
C3_ReportsPresentedFrames ==
    (stop = "key" /\ stdout # <<>>) => stdout[1].n = refreshes

FrameCountInv ==
    /\ pc \in {"alloc", "config"} => frame_count = 0 /\ refreshes = 0
    /\ pc \in {"inject", "diffuse"} => refreshes = frame_count
    /\ pc = "getch" => refreshes = frame_count + 1
    /\ (stop = "key" /\ stdout # <<>>) =>
         /\ stdout[1].n = frame_count
         /\ stdout[1].n = refreshes - 1

\* C3 (amended): frame_count starts at 0, never decreases and grows by one
\* exactly when a key poll times out, so it counts the presented frames whose
\* poll returned no key; when a key press stops the loop the summary reports
\* one less than the number of frames presented, the frame during whose poll
\* the key arrived being presented but not counted.
C3_ReportsCountedFrames ==
    /\ []FrameCountInv
    /\ [][/\ frame_count' \in {frame_count, frame_count + 1}
          /\ frame_count' = frame_count + 1 <=> (pc = "getch" /\ pc' = "inject")
          /\ refreshes' \in {refreshes, refreshes + 1}]_vars

C3_Witness ==
    /\ pc = "exit"
    /\ stop = "key"
    /\ refreshes = 2
    /\ stdout = <<Summary(1, "normal")>>

Allocated == b # <<>>

\* C4: once allocated the buffer has exactly width*height + width + 1
\* entries, at indices 0 .. width*height + width, and every index a frame
\* accesses (the injection write, the diffusion reads and write) is one of
\* them, so no access raises IndexError.
C4_BufferBounds ==
    Allocated =>
      /\ DOMAIN b = 0..(width * height + width)
      /\ Cardinality(DOMAIN b) = width * height + width + 1
      /\ touched \subseteq 0..(width * height + width)
      /\ exc # "IndexError"

C4_Witness ==
    /\ pc = "diffuse"
    /\ i = width * height
    /\ width = 9
    /\ (width * height + width) \in touched

\* C5: every entry of the heat buffer is an integer >= 0 in every reachable
\* state, inside a pass included.
C5_NonNegative ==
    \A j \in DOMAIN b : b[j] \in Nat

C5_Witness ==
    /\ pc = "diffuse"
    /\ 0 < i
    /\ i < width * height
    /\ frame_count >= 1
    /\ \E j \in DOMAIN b : j < i /\ b[j] > 0 /\ b[j] < Seed

\* C6: no operation writes a slack entry, so the entries at indices
\* width*height .. width*height + width are 0 in every reachable state, and
\* only grid cells are drawn.
C6_SlackReadOnly ==
    /\ \A j \in DOMAIN b : j >= width * height => b[j] = 0
    /\ lastDraw # NoDraw =>
         lastDraw.row * width + lastDraw.col \in 0..(width * height - 1)

RECURSIVE SumTo(_, _)
SumTo(buf, n) == IF n < 0 THEN 0 ELSE buf[n] + SumTo(buf, n - 1)

Total(buf) == SumTo(buf, width * height + width)

AllZero(buf) == \A j \in DOMAIN buf : buf[j] = 0

\* Heat weighted by position: the variant of the decay.
RECURSIVE MomentTo(_, _)
MomentTo(buf, n) ==
    IF n < 0 THEN 0 ELSE buf[n] * (n + 1) + MomentTo(buf, n - 1)

Moment(buf) == MomentTo(buf, width * height + width)

\* C7: starting from one hot grid cell (1..65) in an otherwise zero buffer,
\* with no injection, no diffusion pass increases the total of the buffer;
\* every pass over a buffer that is not all zero strictly decreases the
\* natural number Moment (heat only moves to lower indices, or is lost), so
\* the buffer is all zero after finitely many passes, at most Moment of the
\* seeded buffer; and a pass over an all-zero buffer leaves it all zero.
C7_Decay ==
    [][pc = "pass" =>
         /\ Total(b') <= Total(b)
         /\ ~AllZero(b) => Moment(b') < Moment(b)
         /\ AllZero(b) => AllZero(b')]_vars

C7_Witness ==
    /\ pc = "pass"
    /\ prev # <<>>
    /\ ~AllZero(prev)
    /\ AllZero(b)
    /\ width = 9

GridCells == 0..(width * height - 1)

WindowCells(k) == {k, k - 1, k - width, k - width - 1} \cap GridCells

SingleSeed(k, v) == [ZeroBuffer(width, height) EXCEPT ![k] = v]

\* How many of the four reads of cell c are reads of cell k.
Hits(c, k) ==
    Cardinality({n \in 1..4 : <<c, c + 1, c + width, c + width + 1>>[n] = k})

HotCells(buf) == {j \in DOMAIN buf : buf[j] # 0}

\* The buffer before the latest pass held one hot grid cell and zero elsewhere.
SeededBefore ==
    /\ prev # <<>>
    /\ Cardinality(HotCells(prev)) = 1
    /\ HotCells(prev) \subseteq GridCells

SeedCell == CHOOSE k \in HotCells(prev) : TRUE

\* C8 (as stated): after one pass over a buffer that is zero except for grid
\* cell k holding v, exactly the grid cells k, k-1, k-width, k-width-1 are
\* nonzero, each equals floor(v/4), and every other entry is 0.
C8_SeedSpreadsNonzero ==
    SeededBefore =>
      \A j \in DOMAIN b :
         IF j \in WindowCells(SeedCell)
           THEN b[j] = prev[SeedCell] \div 4 /\ b[j] # 0
           ELSE b[j] = 0

\* C8 (amended): after such a pass every entry outside the grid cells k, k-1,
\* k-width, k-width-1 is 0, and each of those cells equals floor(v/4), which
\* is nonzero exactly when v >= 4; except that for width = 1, where i+1 and
\* i+width are the same cell, cell k-1 reads the seed twice and equals
\* floor(2v/4).
C8_SeedSpreads ==
    SeededBefore =>
      \A j \in DOMAIN b :
         IF j \in WindowCells(SeedCell)
           THEN /\ b[j] = (Hits(j, SeedCell) * prev[SeedCell]) \div 4
                /\ Hits(j, SeedCell) =
                     IF width = 1 /\ j = SeedCell - 1 THEN 2 ELSE 1
           ELSE b[j] = 0

C8_Witness ==
    /\ width = 9
    /\ height = 3
    /\ prev = SingleSeed(20, Seed)
    /\ \A j \in DOMAIN b : b[j] = IF j \in {10, 11, 19, 20} THEN 16 ELSE 0

\* The pass computed from the buffer as it was before the pass.
SyncPass(buf, w, size) ==
    [j \in DOMAIN buf |->
       IF j < size
         THEN (buf[j] + buf[j + 1] + buf[j + w] + buf[j + w + 1]) \div 4
         ELSE buf[j]]

PassInputs(w, h) ==
    {[j \in 0..(Size(w, h) + w) |-> IF j < Size(w, h) THEN g[j] ELSE 0] :
       g \in [0..(Size(w, h) - 1) -> PassHeat]}

\* C9 (as stated): there are buffers for which the in-place pass, sweeping i
\* upward, gives a different result than a pass computed from the unmodified
\* buffer.
C9_OrderMatters ==
    \E buf \in PassInputs(width, height) :
       DiffusePass(buf, 0, width, Size(width, height))
         # SyncPass(buf, width, Size(width, height))

\* C9 (amended): the in-place pass reads only indices above the one it
\* writes, which the upward sweep has not updated yet, so for every buffer
\* its result equals that of the pass computed from the unmodified buffer.
C9_InPlaceEqualsSync ==
    prev # <<>> => b = SyncPass(prev, width, Size(width, height))

C9_Witness ==
    /\ pc = "pass"
    /\ prev # <<>>
    /\ width = 3
    /\ height = 3
    /\ b # prev
    /\ b = SyncPass(prev, width, Size(width, height))
    /\ \E j \in GridCells : prev[j] # 0 /\ prev[j] # Seed

PassFinished == (pc = "diffuse" /\ i = width * height) \/ pc = "getch"

\* C10 (as stated): in every frame each grid cell, the bottom-right cell
\* width*height - 1 included, gets exactly one draw attempt.
C10_EveryCellDrawn ==
    PassFinished => \A c \in GridCells : attempts[c] = 1

\* C10 (amended): in every frame each grid cell i < width*height - 1 gets
\* exactly one draw attempt, made right after its value is computed, at
\* (i div width, i mod width), with the glyph and colour of that value; the
\* bottom-right cell width*height - 1 is never drawn; a failed draw leaves
\* the buffer as the diffusion step set it and the frame goes on.
C10_CellPlacement ==
    /\ pc \in {"diffuse", "getch"} =>
         \A c \in GridCells :
            attempts[c] = IF c < i /\ c < width * height - 1 THEN 1 ELSE 0
    /\ (pc = "diffuse" /\ 1 <= i /\ i <= width * height - 1) =>
         /\ lastDraw = DrawOf(b, i - 1, width, lastDraw.ok)
         /\ exc = "none"
    /\ lastDraw # NoDraw =>
         /\ lastDraw.row \in 0..(height - 1)
         /\ lastDraw.col \in 0..(width - 1)
         /\ lastDraw.row * width + lastDraw.col < width * height - 1

C10_Witness ==
    /\ pc = "getch"
    /\ width = 9
    /\ attempts[width * height - 2] = 1
    /\ attempts[width * height - 1] = 0
    /\ lastDraw.ok = FALSE
    /\ lastDraw.glyph > 0

====
